---- MODULE Spec2Model ----
(***************************************************************************)
(* CPS-to-CSV (src/main.py): translation of fixed-width data lines into    *)
(* CSV rows through the field mappings of translation.json.                *)
(*                                                                         *)
(* Python strings are TLA+ strings (TLC evaluates \o, Len and SubSeq on    *)
(* them), Python lists are sequences, Python dicts are functions whose     *)
(* DOMAIN is the dict's key set.  A JSON scalar used as an offset carries  *)
(* its JSON type, since the code never checks it.                          *)
(***************************************************************************)
EXTENDS Integers, Sequences, FiniteSets, TLC

VARIABLES
    pc,               \* position of main()
    err,              \* the uncaught exception that ended the run ("" if none)
    outfile,          \* content of the file at OUTFILE
    input_json,       \* the document json.load returned
    translation_info, \* main's translation_info: None until assigned
    data_lines,       \* main's data_lines
    header,           \* main's header
    i,                \* translate_lines: index of the current line (0-based)
    j,                \* translate_lines: position in translation_info (1-based)
    line_vals,        \* translate_lines: values of the current line
    out,              \* translate_lines: rows built so far
    stdout            \* the WARNING lines printed, in order

vars == <<pc, err, outfile, input_json, translation_info, data_lines, header,
          i, j, line_vals, out, stdout>>

----------------------------------------------------------------------------
(* Bounds of the model *)

MaxLines == 2

MaxMappings == 2

----------------------------------------------------------------------------
(* Values *)

None == <<>>

Some(v) == <<v>>

JInt(n) == [t |-> "int", v |-> n]

JStr(s) == [t |-> "str", v |-> s]

Min(a, b) == IF a < b THEN a ELSE b

Max(a, b) == IF a > b THEN a ELSE b

SeqsUpTo(S, n) == UNION {[1..k -> S] : k \in 0..n}

----------------------------------------------------------------------------
(* Inputs: the mapping entries and the raw input lines the model draws from *)

SexMap == ("1" :> "M" @@ "2" :> "F")

EmptyMap == [v \in {} |-> ""]

Entry(key, start, end, value_map) ==
    [key |-> key, location |-> [start |-> start, end |-> end], value_map |-> value_map]

\* entries that carry every required attribute: three with a value_map, two with
\* an empty one, one with unknown extra fields, two with a JSON string as offset
GoodEntries ==
    { Entry("sex", JInt(1), JInt(1), SexMap),
      Entry("sex2", JInt(1), JInt(2), SexMap),
      Entry("age", JInt(2), JInt(3), EmptyMap),
      [key |-> "sexx", location |-> [start |-> JInt(1), end |-> JInt(1), unit |-> "col"],
       value_map |-> SexMap, comment |-> "extra"],
      Entry("id", JInt(3), JInt(3), EmptyMap),
      Entry("bad", JStr("1"), JInt(1), SexMap),
      Entry("bad2", JInt(1), JStr("2"), EmptyMap) }

\* entries that lack one
BadEntries ==
    { [key |-> "sex", location |-> [start |-> JInt(1), end |-> JInt(1)]],
      [key |-> "sex", value_map |-> SexMap],
      [location |-> [start |-> JInt(1), end |-> JInt(1)], value_map |-> SexMap],
      [key |-> "sex", location |-> [start |-> JInt(1)], value_map |-> SexMap],
      [key |-> "sex", location |-> [end |-> JInt(1), unit |-> "col"], value_map |-> SexMap] }

Documents ==
    { [translations |-> trs] : trs \in SeqsUpTo(GoodEntries \cup BadEntries, MaxMappings) }
    \cup { [version |-> "1"] }

RawLines == { "\n", "1\n", " 9 \n", "19\n", "291\n" }

Unread == [unread |-> TRUE]

----------------------------------------------------------------------------
(* Helpers of the code *)

IsSpace(c) == c \in {" ", "\n", "\t", "\r"}

RECURSIVE LStrip(_)
LStrip(s) ==
    IF Len(s) > 0 /\ IsSpace(SubSeq(s, 1, 1)) THEN LStrip(SubSeq(s, 2, Len(s))) ELSE s

RECURSIVE RStrip(_)
RStrip(s) ==
    IF Len(s) > 0 /\ IsSpace(SubSeq(s, Len(s), Len(s)))
    THEN RStrip(SubSeq(s, 1, Len(s) - 1)) ELSE s

\* str.strip()
Strip(s) == RStrip(LStrip(s))

\* get_input_lines: the lines of the file, stripped
GetInputLines(raw) == [k \in 1..Len(raw) |-> Strip(raw[k])]

\* s[lo:hi] of Python, for integers lo and hi
PySlice(s, lo, hi) ==
    LET n == Len(s)
        a == IF lo < 0 THEN Max(lo + n, 0) ELSE Min(lo, n)
        b == IF hi < 0 THEN Max(hi + n, 0) ELSE Min(hi, n)
    IN  IF a < b THEN SubSeq(s, a + 1, b) ELSE ""

\* sep.join(xs)
RECURSIVE Join(_, _)
Join(sep, xs) ==
    IF Len(xs) = 0 THEN ""
    ELSE IF Len(xs) = 1 THEN xs[1]
    ELSE xs[1] \o sep \o Join(sep, Tail(xs))

\* "".join(xs), what writelines leaves in the file
RECURSIVE Concat(_)
Concat(xs) == IF Len(xs) = 0 THEN "" ELSE xs[1] \o Concat(Tail(xs))

TopLevelFields == {"key", "location", "value_map"}

LocationFields == {"start", "end"}

\* mutant: the key sets must equal the required ones (extra fields rejected)
CheckTranslationItem_ExactKeys(tr) ==
    /\ DOMAIN tr = TopLevelFields
    /\ DOMAIN tr.location = LocationFields

\* mutant: the offsets must be integers as well
CheckTranslationItem_TypesOffsets(tr) ==
    /\ TopLevelFields \cap DOMAIN tr = TopLevelFields
    /\ LocationFields \cap DOMAIN tr.location = LocationFields
    /\ tr.location.start.t = "int" /\ tr.location.end.t = "int"

\* _check_translation_item: TRUE when it returns, FALSE when it raises
CheckTranslationItem(tr) ==
    /\ TopLevelFields \cap DOMAIN tr = TopLevelFields
    /\ LocationFields \cap DOMAIN tr.location = LocationFields

MissingTranslations == "MissingFieldError: Bad translation file: Missing 'translations' field"

MissingFields == "MissingFieldError: Bad translation file: Item(s) missing fields(s)"

\* get_translation_info: the exception it raises, or "" when it returns
LoadError(doc) ==
    IF "translations" \notin DOMAIN doc THEN MissingTranslations
    ELSE IF \E k \in 1..Len(doc.translations) : ~CheckTranslationItem(doc.translations[k])
         THEN MissingFields
         ELSE ""

\* mutant: the keys in reverse order
MakeCsvHeader_Reversed(info) ==
    Join(",", [k \in 1..Len(info) |-> info[Len(info) + 1 - k].key])

\* make_csv_header
MakeCsvHeader(info) == Join(",", [k \in 1..Len(info) |-> info[k].key])

\* loc["start"] - 1 and the slice raise TypeError unless both offsets are integers
OffsetsUsable(loc) == loc.start.t = "int" /\ loc.end.t = "int"

\* mutant: a range that runs past the end of the line yields nothing
InputValue_WholeRange(line, loc) ==
    IF loc.end.v > Len(line) THEN "" ELSE PySlice(line, loc.start.v - 1, loc.end.v)

\* line[loc["start"] - 1 : loc["end"]]
InputValue(line, loc) == PySlice(line, loc.start.v - 1, loc.end.v)

\* mutant: the value_map is never consulted
TranslatedValue_NoLookup(value_map, input_value) == input_value

\* the value appended to line_vals
TranslatedValue(value_map, input_value) ==
    IF input_value \in DOMAIN value_map THEN value_map[input_value] ELSE input_value

\* mutant: warns on every miss, an empty value_map included
Warns_OnAnyMiss(value_map, input_value) == input_value \notin DOMAIN value_map

\* whether the pair prints a warning
Warns(value_map, input_value) ==
    input_value \notin DOMAIN value_map /\ DOMAIN value_map # {}

\* mutant: the line is counted from 1
WarningText_OneBased(line_no, key, input_value) ==
    "WARNING: Line " \o ToString(line_no + 1) \o " missing translation for " \o key
        \o ": " \o input_value

\* print(f"WARNING: Line {i} missing translation for {tr['key']}: {input_value}")
WarningText(line_no, key, input_value) ==
    "WARNING: Line " \o ToString(line_no) \o " missing translation for " \o key
        \o ": " \o input_value

\* mutant: the line is counted from 1
LocationError_OneBased(key, line_no) ==
    "ValueError: Location for " \o key \o " does not exist for line "
        \o ToString(line_no + 1)

\* raise ValueError(f"Location for {tr['key']} does not exist for line {i}")
LocationError(key, line_no) ==
    "ValueError: Location for " \o key \o " does not exist for line " \o ToString(line_no)

OpenError(mode, path) == "OSError: Incorrect mode " \o mode \o " for path " \o path

----------------------------------------------------------------------------
(* main() *)

Init ==
    /\ pc = "open_in"
    /\ err = ""
    /\ outfile \in {"", "old,csv\n"}
    /\ input_json = Unread
    /\ translation_info = None
    /\ data_lines = <<>>
    /\ header = ""
    /\ i = 0
    /\ j = 1
    /\ line_vals = <<>>
    /\ out = <<>>
    /\ stdout = <<>>

Raise(e) == pc' = "failed" /\ err' = e

\* in_fh = get_filehandle(args.INFILE, "r")
OpenIn ==
    /\ pc = "open_in"
    /\ \E exists \in BOOLEAN :
         IF exists THEN pc' = "open_out" /\ err' = err
         ELSE Raise(OpenError("r", "INFILE"))
    /\ UNCHANGED <<outfile, input_json, translation_info, data_lines, header,
                   i, j, line_vals, out, stdout>>

\* out_fh = get_filehandle(args.OUTFILE, "w"): creates or truncates the file
OpenOut ==
    /\ pc = "open_out"
    /\ \E dir_exists \in BOOLEAN :
         IF dir_exists THEN pc' = "open_trans" /\ err' = err /\ outfile' = ""
         ELSE Raise(OpenError("w", "OUTFILE")) /\ outfile' = outfile
    /\ UNCHANGED <<input_json, translation_info, data_lines, header,
                   i, j, line_vals, out, stdout>>

\* trans_fh = get_filehandle("translation.json", "r")
OpenTrans ==
    /\ pc = "open_trans"
    /\ \E exists \in BOOLEAN :
         IF exists THEN pc' = "load" /\ err' = err
         ELSE Raise(OpenError("r", "translation.json"))
    /\ UNCHANGED <<outfile, input_json, translation_info, data_lines, header,
                   i, j, line_vals, out, stdout>>

\* translation_info = get_translation_info(trans_fh)
GetTranslationInfo ==
    /\ pc = "load"
    /\ \E doc \in Documents :
         /\ input_json' = doc
         /\ IF LoadError(doc) = ""
            THEN /\ translation_info' = Some(doc.translations)
                 /\ pc' = "read"
                 /\ err' = err
            ELSE /\ translation_info' = translation_info
                 /\ Raise(LoadError(doc))
    /\ UNCHANGED <<outfile, data_lines, header, i, j, line_vals, out, stdout>>

\* data_lines = get_input_lines(in_fh)
ReadLines ==
    /\ pc = "read"
    /\ \E raw \in SeqsUpTo(RawLines, MaxLines) : data_lines' = GetInputLines(raw)
    /\ pc' = "header"
    /\ UNCHANGED <<err, outfile, input_json, translation_info, header,
                   i, j, line_vals, out, stdout>>

Info == translation_info[1]

\* header = make_csv_header(translation_info), then the call of translate_lines
MakeHeader ==
    /\ pc = "header"
    /\ header' = MakeCsvHeader(Info)
    /\ pc' = "translate"
    /\ i' = 0 /\ j' = 1 /\ line_vals' = <<>> /\ out' = <<>>
    /\ UNCHANGED <<err, outfile, input_json, translation_info, data_lines, stdout>>

\* one pass of the inner loop of translate_lines
TranslatePair ==
    /\ pc = "translate"
    /\ i < Len(data_lines)
    /\ j <= Len(Info)
    /\ LET line == data_lines[i + 1]
           tr == Info[j]
           loc == tr.location
           value_map == tr.value_map
       IN  IF ~OffsetsUsable(loc)
           THEN /\ Raise("TypeError")
                /\ UNCHANGED <<j, line_vals, stdout>>
           ELSE LET input_value == InputValue(line, loc)
                IN  IF input_value = ""
                    THEN /\ Raise(LocationError(tr.key, i))
                         /\ UNCHANGED <<j, line_vals, stdout>>
                    ELSE /\ line_vals' = Append(line_vals, TranslatedValue(value_map, input_value))
                         /\ stdout' = IF Warns(value_map, input_value)
                                      THEN Append(stdout, WarningText(i, tr.key, input_value))
                                      ELSE stdout
                         /\ j' = j + 1
                         /\ UNCHANGED <<pc, err>>
    /\ UNCHANGED <<outfile, input_json, translation_info, data_lines, header, i, out>>

\* mutant: the row goes in front of the rows built so far
EndOfLine_Prepends ==
    /\ pc = "translate"
    /\ i < Len(data_lines)
    /\ j > Len(Info)
    /\ out' = <<Join(",", line_vals) \o "\n">> \o out
    /\ i' = i + 1 /\ j' = 1 /\ line_vals' = <<>>
    /\ UNCHANGED <<pc, err, outfile, input_json, translation_info, data_lines,
                   header, stdout>>

\* mutant: the row is written to the output file as soon as it is built
EndOfLine_Streams ==
    /\ pc = "translate"
    /\ i < Len(data_lines)
    /\ j > Len(Info)
    /\ out' = Append(out, Join(",", line_vals) \o "\n")
    /\ outfile' = outfile \o Join(",", line_vals) \o "\n"
    /\ i' = i + 1 /\ j' = 1 /\ line_vals' = <<>>
    /\ UNCHANGED <<pc, err, input_json, translation_info, data_lines, header, stdout>>

\* out.append(",".join(line_vals) + "\n"), and on to the next line
EndOfLine ==
    /\ pc = "translate"
    /\ i < Len(data_lines)
    /\ j > Len(Info)
    /\ out' = Append(out, Join(",", line_vals) \o "\n")
    /\ i' = i + 1 /\ j' = 1 /\ line_vals' = <<>>
    /\ UNCHANGED <<pc, err, outfile, input_json, translation_info, data_lines,
                   header, stdout>>

\* return out, then out_fh.write(header + "\n")
WriteHeader ==
    /\ pc = "translate"
    /\ i = Len(data_lines)
    /\ outfile' = outfile \o header \o "\n"
    /\ pc' = "write_lines"
    /\ UNCHANGED <<err, input_json, translation_info, data_lines, header,
                   i, j, line_vals, out, stdout>>

\* out_fh.writelines(csv_lines), then out_fh.close()
WriteLines ==
    /\ pc = "write_lines"
    /\ outfile' = outfile \o Concat(out)
    /\ pc' = "done"
    /\ UNCHANGED <<err, input_json, translation_info, data_lines, header,
                   i, j, line_vals, out, stdout>>

Next ==
    \/ OpenIn
    \/ OpenOut
    \/ OpenTrans
    \/ GetTranslationInfo
    \/ ReadLines
    \/ MakeHeader
    \/ TranslatePair
    \/ EndOfLine
    \/ WriteHeader
    \/ WriteLines

Spec == Init /\ [][Next]_vars

----------------------------------------------------------------------------
(* What the properties are stated with: the field of a line as the mapping *)
(* declares it, the 1-indexed inclusive range [start, end] cut at the end  *)
(* of the line, and the comma-join as a left fold.                         *)

\* the inner loop is about to evaluate line i (0-based) against mapping j
Translating == pc = "translate" /\ i < Len(data_lines) /\ j <= Len(Info)

CurLine == data_lines[i + 1]

CurTr == Info[j]

IntOffsets(tr) == tr.location.start.t = "int" /\ tr.location.end.t = "int"

StartOf(tr) == tr.location.start.v

EndOf(tr) == tr.location.end.v

\* 1 <= start <= end, both integers
ValidRange(tr) == IntOffsets(tr) /\ 1 <= StartOf(tr) /\ StartOf(tr) <= EndOf(tr)

Field(line, tr) == SubSeq(line, StartOf(tr), Min(EndOf(tr), Len(line)))

\* the value the spec gives the field: the mapped value, else the field itself
Expected(line, tr) ==
    IF Field(line, tr) \in DOMAIN tr.value_map
    THEN tr.value_map[Field(line, tr)]
    ELSE Field(line, tr)

RECURSIVE CommaFold(_, _)
CommaFold(xs, n) ==
    IF n = 0 THEN ""
    ELSE IF n = 1 THEN xs[1]
    ELSE CommaFold(xs, n - 1) \o "," \o xs[n]

CommaJoined(xs) == CommaFold(xs, Len(xs))

RECURSIVE CountCommas(_)
CountCommas(s) ==
    IF Len(s) = 0 THEN 0
    ELSE (IF SubSeq(s, 1, 1) = "," THEN 1 ELSE 0) + CountCommas(SubSeq(s, 2, Len(s)))

ExpectedRow(line) ==
    CommaJoined([m \in 1..Len(Info) |-> Expected(line, Info[m])]) \o "\n"

RECURSIVE RowsFold(_)
RowsFold(n) == IF n = 0 THEN "" ELSE RowsFold(n - 1) \o ExpectedRow(data_lines[n])

\* the warning the spec words, and the line the program prints
SpecWarning(line_no, key, value) ==
    "Line " \o ToString(line_no) \o " missing translation for " \o key \o ": " \o value

PrintedWarning(line_no, key, value) == "WARNING: " \o SpecWarning(line_no, key, value)

\* the warnings of the pairs evaluated before line k (1-based), mapping m
RECURSIVE WarningsBefore(_, _)
WarningsBefore(k, m) ==
    IF m > 1
    THEN LET tr == Info[m - 1]
             f == Field(data_lines[k], tr)
         IN  WarningsBefore(k, m - 1) \o
             (IF DOMAIN tr.value_map # {} /\ f \notin DOMAIN tr.value_map
              THEN <<PrintedWarning(k - 1, tr.key, f)>> ELSE <<>>)
    ELSE IF k > 1 THEN WarningsBefore(k - 1, Len(Info) + 1)
    ELSE <<>>

Loaded == translation_info # None

AllValid == \A m \in 1..Len(Info) : ValidRange(Info[m])

Short(k, m) == Len(data_lines[k]) < StartOf(Info[m])

ShortLines == {k \in 1..Len(data_lines) : \E m \in 1..Len(Info) : Short(k, m)}

FirstShortLine == CHOOSE k \in ShortLines : \A k2 \in ShortLines : k <= k2

FirstShortMapping ==
    CHOOSE m \in 1..Len(Info) :
        /\ Short(FirstShortLine, m)
        /\ \A m2 \in 1..(m - 1) : ~Short(FirstShortLine, m2)

Lacks(e) ==
    \/ "key" \notin DOMAIN e
    \/ "value_map" \notin DOMAIN e
    \/ "location" \notin DOMAIN e
    \/ "start" \notin DOMAIN e.location
    \/ "end" \notin DOMAIN e.location

ConfigErrors == {MissingTranslations, MissingFields}

HasTranslations == input_json # Unread /\ "translations" \in DOMAIN input_json

\* every entry has all five attributes and some offset is a JSON string
Mistyped ==
    /\ HasTranslations
    /\ \A k \in 1..Len(input_json.translations) : ~Lacks(input_json.translations[k])
    /\ \E k \in 1..Len(input_json.translations) : ~IntOffsets(input_json.translations[k])

----------------------------------------------------------------------------
(* Properties *)

\* C1 (lookup): when the field of the current line is a key of the mapping's
\* value_map, the step appends value_map[field] to the line's values, prints
\* nothing and does not fail.
C1_Lookup ==
    [][ (Translating /\ ValidRange(CurTr)
            /\ Field(CurLine, CurTr) \in DOMAIN CurTr.value_map)
        => /\ line_vals' = Append(line_vals, CurTr.value_map[Field(CurLine, CurTr)])
           /\ stdout' = stdout
           /\ pc' = "translate" /\ err' = "" ]_vars

\* a mapped value has just been appended
C1_Witness ==
    /\ pc = "translate" /\ i = 1 /\ j = 3 /\ stdout = <<>>
    /\ Info[2].key = "sex2" /\ data_lines[2] = "1" /\ line_vals[2] = "M"

\* C2 as the spec words it: a non-empty field missing from a non-empty value_map
\* is appended verbatim and exactly one line, "Line {i} missing translation for
\* {key}: {value}", is printed.
C2_Original ==
    [][ (Translating /\ ValidRange(CurTr)
            /\ DOMAIN CurTr.value_map # {}
            /\ Field(CurLine, CurTr) # ""
            /\ Field(CurLine, CurTr) \notin DOMAIN CurTr.value_map)
        => /\ line_vals' = Append(line_vals, Field(CurLine, CurTr))
           /\ stdout' = Append(stdout, SpecWarning(i, CurTr.key, Field(CurLine, CurTr)))
           /\ pc' = "translate" /\ err' = "" ]_vars

\* C2 (fallback and warning), amended: the one line printed is
\* "WARNING: Line {i} missing translation for {key}: {value}".
C2_FallbackWarning ==
    [][ (Translating /\ ValidRange(CurTr)
            /\ DOMAIN CurTr.value_map # {}
            /\ Field(CurLine, CurTr) # ""
            /\ Field(CurLine, CurTr) \notin DOMAIN CurTr.value_map)
        => /\ line_vals' = Append(line_vals, Field(CurLine, CurTr))
           /\ stdout' = Append(stdout, PrintedWarning(i, CurTr.key, Field(CurLine, CurTr)))
           /\ pc' = "translate" /\ err' = "" ]_vars

\* the second line's "9" was not in the sex map: passed through, one warning
C2_Witness ==
    /\ pc = "translate" /\ i = 1 /\ j = 2
    /\ Info[1].key = "sex" /\ data_lines[2] = "9" /\ line_vals = <<"9">>
    /\ stdout = <<"WARNING: Line 1 missing translation for sex: 9">>

\* C3 (passthrough): with an empty value_map a non-empty field is appended
\* verbatim and nothing is printed.
C3_Passthrough ==
    [][ (Translating /\ ValidRange(CurTr)
            /\ DOMAIN CurTr.value_map = {}
            /\ Field(CurLine, CurTr) # "")
        => /\ line_vals' = Append(line_vals, Field(CurLine, CurTr))
           /\ stdout' = stdout
           /\ pc' = "translate" /\ err' = "" ]_vars

\* "291" against sex (1-1) and age (2-3, empty value_map): "2" maps to F, "91" passes
C3_Witness ==
    /\ pc = "translate" /\ i = 0 /\ j = 3
    /\ Info[2].key = "age" /\ data_lines[1] = "291"
    /\ line_vals = <<"F", "91">> /\ stdout = <<>>

\* C4 (bounds failure): when some line is shorter than some mapping's start, the
\* loop never passes the first such line's first such mapping, the run does not
\* reach the writes, and a failed run carries the location error naming that
\* mapping's key and that line's 0-based index, with one row per earlier line
\* and nothing in the output file.
C4_BoundsFailure ==
    (Loaded /\ pc \in {"translate", "write_lines", "done", "failed"}
        /\ AllValid /\ ShortLines # {})
    => /\ pc \notin {"write_lines", "done"}
       /\ i + 1 <= FirstShortLine
       /\ (i + 1 = FirstShortLine => j <= FirstShortMapping)
       /\ Len(out) <= FirstShortLine - 1
       /\ pc = "failed" =>
            /\ err = "ValueError: Location for " \o Info[FirstShortMapping].key
                        \o " does not exist for line " \o ToString(FirstShortLine - 1)
            /\ i + 1 = FirstShortLine /\ j = FirstShortMapping
            /\ Len(out) = FirstShortLine - 1
            /\ outfile = ""

\* the second line is too short for the second mapping: one row, then the error
C4_Witness ==
    /\ pc = "failed" /\ Loaded /\ AllValid
    /\ data_lines = <<"19", "1">>
    /\ Len(Info) = 2 /\ Info[1].key = "sex" /\ Info[2].key = "age"
    /\ err = "ValueError: Location for age does not exist for line 1"
    /\ out = <<"M,9\n">> /\ outfile = ""

\* C5 (row order and count): a finished run leaves the header line followed by
\* one row per input line in input order, the k-th row the comma-join of the
\* k-th line's values, one per mapping in mapping order (so a row of values
\* without commas holds one comma less than there are mappings).
C5_RowOrder ==
    pc = "done" =>
        /\ Len(out) = Len(data_lines)
        /\ \A k \in 1..Len(data_lines) :
              /\ out[k] = ExpectedRow(data_lines[k])
              /\ (Len(Info) >= 1 /\ \A m \in 1..Len(Info) :
                                       CountCommas(Expected(data_lines[k], Info[m])) = 0)
                    => CountCommas(out[k]) = Len(Info) - 1
        /\ outfile = CommaJoined([m \in 1..Len(Info) |-> Info[m].key]) \o "\n"
                        \o RowsFold(Len(data_lines))

\* two different lines, two mappings
C5_Witness ==
    /\ pc = "done" /\ data_lines = <<"291", "19">>
    /\ Len(Info) = 2 /\ Info[1].key = "sex" /\ Info[2].key = "age"
    /\ outfile = "sex,age\nF,91\nM,9\n"

\* C6 (header order): once built, the header is the comma-join of the keys in the
\* order of the mappings whatever the lines are, and it is the first line of
\* what is written.
C6_HeaderOrder ==
    /\ pc \in {"translate", "write_lines", "done"}
         => header = CommaJoined([m \in 1..Len(Info) |-> Info[m].key])
    /\ pc \in {"write_lines", "done"}
         => SubSeq(outfile, 1, Len(header) + 1) = header \o "\n"
    /\ pc = "write_lines" => outfile = header \o "\n"

C6_Witness ==
    /\ pc = "write_lines" /\ Len(data_lines) = 2
    /\ Len(Info) = 2 /\ Info[1].key = "age" /\ Info[2].key = "sex"
    /\ outfile = "age,sex\n"

\* C7 (presence validation): the load fails with the missing-field error, and
\* assigns no mapping sequence, exactly when "translations" is absent or some
\* entry lacks key, location, value_map, location.start or location.end; extra
\* fields do not matter.
C7_PresenceValidation ==
    input_json # Unread =>
        IF \/ "translations" \notin DOMAIN input_json
           \/ \E k \in 1..Len(input_json.translations) : Lacks(input_json.translations[k])
        THEN pc = "failed" /\ err \in ConfigErrors /\ translation_info = None
        ELSE translation_info = Some(input_json.translations) /\ err \notin ConfigErrors

\* a good entry followed by one without value_map fails the whole load
C7_Witness ==
    /\ pc = "failed" /\ err = MissingFields /\ translation_info = None
    /\ HasTranslations /\ Len(input_json.translations) = 2
    /\ ~Lacks(input_json.translations[1])
    /\ DOMAIN input_json.translations[2] = {"key", "location"}

\* C8 as the spec words it: an offset that is not an integer fails the load with
\* the config error, before any translation step.
C8_Original ==
    Mistyped =>
        /\ pc = "failed" /\ err \in ConfigErrors
        /\ translation_info = None
        /\ out = <<>> /\ stdout = <<>>

\* C8, amended: an offset given as a JSON string is not rejected at load time.
\* The load returns the entries as they are; the run ends with a TypeError (or an
\* earlier mapping's location error) while translating the first line, after the
\* warnings of the mappings before it, with no row built or written; with no
\* input line the run completes and writes the header alone.
C8_MistypedNotRejected ==
    Mistyped =>
        /\ translation_info = Some(input_json.translations)
        /\ err \notin ConfigErrors
        /\ i = 0 /\ out = <<>>
        /\ pc = "failed" =>
             /\ Len(data_lines) >= 1
             /\ outfile = ""
             /\ \/ err = "TypeError" /\ ~IntOffsets(CurTr)
                \/ err = "ValueError: Location for " \o CurTr.key
                            \o " does not exist for line 0"
             /\ \A m \in 1..(j - 1) : IntOffsets(Info[m])
        /\ pc \in {"write_lines", "done"} => data_lines = <<>>
        /\ pc = "done" => outfile = header \o "\n"

\* sex warns about "9", then the string offset of the next mapping raises
C8_Witness ==
    /\ Mistyped /\ pc = "failed" /\ err = "TypeError"
    /\ Info[1].key = "sex" /\ Info[2].key = "bad"
    /\ data_lines[1] = "9" /\ j = 2
    /\ stdout = <<"WARNING: Line 0 missing translation for sex: 9">>

\* C9 (partial overrun): with 1 <= start <= end the step fails, with the
\* location error, exactly when start - 1 >= length(line); a range that runs
\* past the end of the line yields the rest of the line from start, which is
\* looked up, passed through and warned about like any other value.
C9_PartialOverrun ==
    [][ (Translating /\ ValidRange(CurTr))
        => /\ (pc' = "failed") <=> (StartOf(CurTr) - 1 >= Len(CurLine))
           /\ pc' = "failed" =>
                err' = "ValueError: Location for " \o CurTr.key
                          \o " does not exist for line " \o ToString(i)
           /\ (StartOf(CurTr) <= Len(CurLine) /\ Len(CurLine) < EndOf(CurTr)) =>
                LET rest == SubSeq(CurLine, StartOf(CurTr), Len(CurLine))
                    vm == CurTr.value_map
                IN  /\ line_vals' =
                          Append(line_vals, IF rest \in DOMAIN vm THEN vm[rest] ELSE rest)
                    /\ stdout' =
                          IF rest \notin DOMAIN vm /\ DOMAIN vm # {}
                          THEN Append(stdout, PrintedWarning(i, CurTr.key, rest))
                          ELSE stdout ]_vars

\* "1" against sex2 (1-2): the truncated "1" was looked up and gave the row "M"
C9_Witness ==
    /\ pc = "translate" /\ i = 1 /\ j = 1 /\ out = <<"M\n">>
    /\ Len(Info) = 1 /\ Info[1].key = "sex2" /\ data_lines[1] = "1"
    /\ stdout = <<>>

\* C10 (all or nothing): after the output file has been opened it stays empty
\* until every line has been translated, whatever it held before; a run that
\* fails, in the load or on a line, leaves it empty, rows of earlier lines
\* included; the warnings of the pairs evaluated so far have been printed.
C10_AllOrNothing ==
    /\ (pc \in {"open_trans", "load", "read", "header", "translate"}
          \/ (pc = "failed" /\ err \notin {OpenError("r", "INFILE"), OpenError("w", "OUTFILE")}))
         => outfile = ""
    /\ outfile \notin {"", "old,csv\n"}
         => /\ pc \in {"write_lines", "done"}
            /\ Len(out) = Len(data_lines)
            /\ i = Len(data_lines)
    /\ pc = "translate" \/ (pc = "failed" /\ Loaded)
         => stdout = WarningsBefore(i + 1, j)
    /\ pc = "failed" /\ ~Loaded => stdout = <<>>

\* a row was built and a warning printed before the second line failed
C10_Witness ==
    /\ pc = "failed" /\ Loaded /\ i = 1 /\ Len(out) = 1
    /\ err = "ValueError: Location for age does not exist for line 1"
    /\ stdout = <<"WARNING: Line 0 missing translation for sex2: 19">>
    /\ outfile = ""

====
